---------------------------- MODULE Spec2Model ----------------------------
(***************************************************************************)
(* Pi Media Hub launcher (launcher.py): the session orchestrator, the      *)
(* control-plane HTTP listener and the exit procedure, as a state machine  *)
(* of two execution contexts: the main thread that runs                    *)
(* MediaHubLauncher.run, and the daemon thread that runs                   *)
(* HTTPServer.serve_forever and therefore every request handler.           *)
(***************************************************************************)
EXTENDS Integers, Sequences, FiniteSets, TLC

VARIABLES
    config,           \* self.config: the in-memory configuration document
    configFile,       \* CONFIG_FILE on disk
    installed,        \* binaries that shutil.which can locate
    procs,            \* every child process spawned so far, indexed by pid
    browser_process,  \* self.browser_process (0 is None)
    app_process,      \* self.app_process (0 is None)
    http_server,      \* self.http_server has been constructed (socket bound)
    shutdownRequest,  \* HTTPServer.__shutdown_request
    isShutDown,       \* HTTPServer.__is_shut_down
    pc,               \* position of each execution context
    cret,             \* where each context's cleanup() call returns to
    waitPid,          \* the Popen object each context is blocked on in wait()
    pending,          \* connections queued on the listening socket
    app_key,          \* launch_app's argument while the handler runs it
    new_config,       \* save_config_api's parsed request body
    resp,             \* status sent for the latest request (0: none yet)
    log,              \* what the handler logged for the latest request
    sysAction,        \* privileged system action issued by handle_exit
    cecSent,          \* CEC invocations issued through cec-client
    exited,           \* the launcher process has ended
    exitCode,         \* its exit status
    nreq,             \* requests that have arrived so far
    nsig              \* signals delivered so far

vars == <<config, configFile, installed, procs, browser_process, app_process,
          http_server, shutdownRequest, isShutDown, pc, cret, waitPid,
          pending, app_key, new_config, resp, log, sysAction, cecSent,
          exited, exitCode, nreq, nsig>>

-----------------------------------------------------------------------------
(* Bounds of the exploration *)

MaxRequests == 2

MaxPending == 1

MaxSignals == 1

-----------------------------------------------------------------------------
(* Configuration documents *)

RequiredKeys == {"apps", "display", "startup", "exit", "remote", "advanced"}

Has(d, k) == k \in DOMAIN d

\* dict.get(k, default)
Get(d, k, default) == IF k \in DOMAIN d THEN d[k] ELSE default

HubUrl == "http://127.0.0.1:8000/index.html"

YoutubeUrl == "https://www.youtube.com/tv"

JellyfinUrl == "http://jellyfin.local:8096"

SpotifyUrl == "https://open.spotify.com"

UserAgentFlag == "--user-agent=SMART-TV"

\* 'youtube' in url
IsYoutube(url) == url = YoutubeUrl

AppUrl(k) ==
    CASE k = "jellyfin" -> JellyfinUrl
      [] k = "spotify" -> SpotifyUrl
      [] OTHER -> YoutubeUrl

ConfigKeys == {"jellyfin", "spotify", "youtube"}

\* The shapes of an app entry that launch_app tells apart.
AppShape(k, s) ==
    CASE s = "disabled" -> [enabled |-> FALSE, url |-> AppUrl(k), launch_method |-> "browser"]
      [] s = "noflag" -> [url |-> AppUrl(k), launch_method |-> "native"]
      [] s = "default" -> [enabled |-> TRUE, url |-> AppUrl(k)]
      [] s = "browser" -> [enabled |-> TRUE, url |-> AppUrl(k), launch_method |-> "browser",
                           prefer_native |-> TRUE]
      [] s = "native" -> [enabled |-> TRUE, url |-> AppUrl(k), launch_method |-> "native"]
      [] s = "auto" -> [enabled |-> TRUE, url |-> AppUrl(k), launch_method |-> "auto"]
      [] s = "auto_nopref" -> [enabled |-> TRUE, url |-> AppUrl(k), launch_method |-> "auto",
                               prefer_native |-> FALSE]
      [] OTHER -> [enabled |-> TRUE, url |-> AppUrl(k), launch_method |-> "auto",
                   prefer_native |-> TRUE]

Shapes == {"disabled", "noflag", "default", "native", "auto", "auto_pref"}

AppsOf(s) == [k \in ConfigKeys |-> AppShape(k, s)]

Flags == <<"--kiosk">>

Doc(apps, exit, cec) ==
    [apps |-> apps, display |-> "display", startup |-> "startup", exit |-> exit,
     remote |-> [enable_cec |-> cec], advanced |-> [chromium_flags |-> Flags]]

ExitClose == [action |-> "close"]

StandbySections ==
    {[action |-> "cec_standby"], [action |-> "cec_standby", cec_fallback |-> "reboot"]}

NativeChoices ==
    {{}, {"jellyfin-media-player"},
     {"jellyfinmediaplayer", "jellyfin-media-player", "spotify"}}

\* The configurations and environments the launcher is started in: every
\* app shape with the default exit section, and every exit section with one
\* app shape.  Each pairs a document with the binaries installed beside the
\* browser.
InitChoices ==
    {<<Doc(AppsOf(s), ExitClose, FALSE), {}>> : s \in {"disabled", "noflag", "default"}}
    \cup {<<Doc(AppsOf(s), ExitClose, FALSE), n>> :
              s \in {"native", "auto", "auto_pref"}, n \in NativeChoices}
    \cup {<<Doc(AppsOf("default"), [action |-> a], FALSE), {}>> : a \in {"shutdown", "reboot"}}
    \cup {<<Doc(AppsOf("default"), e, c[1]), c[2]>> :
              e \in StandbySections,
              c \in {<<FALSE, {"cec-client"}>>, <<TRUE, {}>>, <<TRUE, {"cec-client"}>>}}

EmptyDoc == [k \in {} |-> 0]

\* Bodies a client posts to /api/config.
PostDocs == {EmptyDoc, Doc(AppsOf("auto_pref"), ExitClose, FALSE)}

\* as json_dump, with the last top-level member left out of the text
json_dump_Partial(doc) == {<<k, doc[k]>> : k \in DOMAIN doc \ {"advanced"}}

\* json.dump(doc, f, indent=2): the text of a document is its top-level
\* members, each a key with its value
json_dump(doc) == {<<k, doc[k]>> : k \in DOMAIN doc}

\* json.load(f): the document with the members of the text
json_load(text) ==
    [k \in {m[1] : m \in text} |-> (CHOOSE m \in text : m[1] = k)[2]]


-----------------------------------------------------------------------------
(* Requests.  A path is a sequence of tokens; no token is a substring of a  *)
(* neighbouring pair, so substring tests are membership tests.              *)

Contains(path, tok) == \E i \in 1..Len(path) : path[i] = tok

\* self.path.startswith('/launch')
StartsWithLaunch(path) ==
    Len(path) > 0 /\ path[1] \in {"/launch/exit", "/launch/app/", "/launch/other"}

LastIndexOf(path, tok) ==
    CHOOSE i \in 1..Len(path) :
        path[i] = tok /\ \A j \in (i + 1)..Len(path) : path[j] # tok

\* path.split('/launch/app/')[-1]
AfterLast(path, tok) == SubSeq(path, LastIndexOf(path, tok) + 1, Len(path))

\* s.split('?')[0]
BeforeFirst(s, tok) ==
    IF Contains(s, tok)
    THEN SubSeq(s, 1, (CHOOSE i \in 1..Len(s) :
                          s[i] = tok /\ \A j \in 1..(i - 1) : s[j] # tok) - 1)
    ELSE s

\* the string a token sequence spells
Spell(s) ==
    CASE Len(s) = 0 -> ""
      [] Len(s) = 1 -> s[1]
      [] OTHER -> "<compound>"

\* app_key = path.split('/launch/app/')[-1].split('?')[0]
AppKeyOf(path) == Spell(BeforeFirst(AfterLast(path, "/launch/app/"), "?"))

RequestKeys == {"jellyfin", "youtube", "ghost"}

GetPaths ==
    {<<"/api/config">>, <<"/index.html">>, <<"/launch/exit">>}
    \cup {<<"/launch/app/", k>> : k \in RequestKeys}
    \cup {<<"/launch/app/", "ghost", "?", "/launch/exit">>}

Requests ==
    {[method |-> "GET", path |-> p, body |-> EmptyDoc] : p \in GetPaths}
    \cup {[method |-> "POST", path |-> <<"/api/config">>, body |-> d] : d \in PostDocs}
    \cup {[method |-> "POST", path |-> <<"/index.html">>, body |-> EmptyDoc]}

\* handle_launch_request(path): the command a /launch path is decoded into
handle_launch_request(path) ==
    IF Contains(path, "/launch/exit") THEN "exit"
    ELSE IF Contains(path, "/launch/app/") THEN "launch_app"
    ELSE "none"

-----------------------------------------------------------------------------
(* Binaries and child processes *)

ChromiumCmds == <<"chromium-browser", "chromium">>

\* the first candidate of cmds that shutil.which locates, "" when none is
FirstInstalled(cmds, inst) ==
    IF \E i \in 1..Len(cmds) : cmds[i] \in inst
    THEN cmds[CHOOSE i \in 1..Len(cmds) :
                 cmds[i] \in inst /\ \A j \in 1..(i - 1) : cmds[j] \notin inst]
    ELSE ""

find_chromium(inst) == FirstInstalled(ChromiumCmds, inst)

native_apps ==
    [jellyfin |-> <<"jellyfinmediaplayer", "jellyfin-media-player">>,
     spotify |-> <<"spotify">>]

NativeCmdline(key, cmd) ==
    IF key = "jellyfin" THEN <<cmd, "--fullscreen", "--platform", "eglfs">>
    ELSE <<cmd>>

HubCmdline(inst, cfg) ==
    <<find_chromium(inst)>> \o cfg["advanced"]["chromium_flags"] \o <<HubUrl>>

AppFlags(cfg, url) ==
    IF IsYoutube(url)
    THEN Append(cfg["advanced"]["chromium_flags"], UserAgentFlag)
    ELSE cfg["advanced"]["chromium_flags"]

\* as ConfigFlagsAfter, with the flag appended to the configured list itself
ConfigFlagsAfter_InPlace(cfg, url) == AppFlags(cfg, url)

\* self.config['advanced']['chromium_flags'] once launch_browser_app has
\* built its flags: the append goes to a copy, the configured list is as before
ConfigFlagsAfter(cfg, url) == cfg["advanced"]["chromium_flags"]

BrowserAppCmdline(inst, cfg, url) ==
    <<find_chromium(inst)>> \o AppFlags(cfg, url) \o <<url>>

Pids == 1..Len(procs)

Alive(p) == p \in Pids /\ procs[p].st # "exited"

Exited(p) == p \in Pids /\ procs[p].st = "exited"

\* subprocess.Popen(cmd): the new table of children
Popen(kind, cmdline) == Append(procs, [kind |-> kind, cmd |-> cmdline, st |-> "running"])

\* Popen.terminate(): SIGTERM unless the child has already ended
Terminate(ps, p) ==
    IF ps[p].st = "running" THEN [ps EXCEPT ![p].st = "signalled"] ELSE ps

-----------------------------------------------------------------------------
(* Initial state: MediaHubLauncher.__init__ has loaded the configuration   *)
(* and run() has installed the signal handlers.                            *)

Init ==
    /\ \E ch \in InitChoices :
          /\ config = ch[1]
          /\ installed = ch[2] \cup {"chromium-browser"}
    /\ configFile = [state |-> "ok", text |-> json_dump(config)]
    /\ procs = <<>>
    /\ browser_process = 0
    /\ app_process = 0
    /\ http_server = FALSE
    /\ shutdownRequest = FALSE
    /\ isShutDown = FALSE
    /\ pc = [main |-> "start", http |-> "off"]
    /\ cret = [main |-> "none", http |-> "none"]
    /\ waitPid = [main |-> 0, http |-> 0]
    /\ pending = <<>>
    /\ app_key = ""
    /\ new_config = EmptyDoc
    /\ resp = 0
    /\ log = {}
    /\ sysAction = "none"
    /\ cecSent = 0
    /\ exited = FALSE
    /\ exitCode = 0
    /\ nreq = 0
    /\ nsig = 0

-----------------------------------------------------------------------------
(* Steps shared by both execution contexts *)

Threads == {"main", "http"}

\* the launcher process ends with the given status; the daemon thread ends
\* with it, the children are left as they are
ProcessExit(code) ==
    /\ exited' = TRUE
    /\ exitCode' = code
    /\ pc' = [pc EXCEPT !["main"] = "done"]

\* SystemExit raised inside a request handler: no except clause of the
\* handlers catches it, it unwinds serve_forever (whose finally sets
\* __is_shut_down) and ends the listener thread, not the process
ThreadExit ==
    /\ pc' = [pc EXCEPT !["http"] = "dead"]
    /\ isShutDown' = TRUE
    /\ shutdownRequest' = FALSE

\* the handler writes its response
Respond(status) ==
    /\ resp' = status
    /\ pc' = [pc EXCEPT !["http"] = "responded"]
    /\ UNCHANGED <<app_key, new_config>>

\* the handler goes on to its next blocking or shared-state step
Goto(p) ==
    /\ pc' = [pc EXCEPT !["http"] = p]
    /\ UNCHANGED <<resp, app_key, new_config>>

\* launch_browser(): start_hub, run by the main thread from run() and by the
\* listener thread from restart_hub()
LaunchBrowser(t) ==

    /\ ~exited
    /\ \/ t = "main" /\ pc[t] = "launch_hub"
       \/ t = "http" /\ pc[t] = "restart_hub"
    /\ \E ok \in BOOLEAN :
         IF find_chromium(installed) = "" \/ (Has(config, "advanced") /\ ~ok)
         THEN \* sys.exit(1)
              /\ IF t = "main"
                 THEN ProcessExit(1) /\ UNCHANGED <<isShutDown, shutdownRequest>>
                 ELSE ThreadExit /\ UNCHANGED <<exited, exitCode>>
              /\ UNCHANGED <<procs, browser_process, resp, log, app_key, new_config>>
         ELSE IF ~Has(config, "advanced")
         THEN \* KeyError: uncaught in run(); caught in launch_native_app,
              \* which returns False to launch_app
              /\ IF t = "main"
                 THEN /\ ProcessExit(1)
                      /\ UNCHANGED <<resp, log, app_key, new_config>>
                 ELSE /\ UNCHANGED <<exited, exitCode>>
                      /\ log' = log \cup {"Failed to launch"}
                      /\ IF /\ procs[waitPid[t]].kind = "native"
                            /\ Get(config["apps"][app_key], "launch_method", "browser") = "auto"
                         THEN Goto("launch_browser_app")
                         ELSE Respond(200)
              /\ UNCHANGED <<procs, browser_process, isShutDown, shutdownRequest>>
         ELSE /\ procs' = Popen("hub", HubCmdline(installed, config))
              /\ browser_process' = Len(procs) + 1
              /\ IF t = "main"
                 THEN /\ pc' = [pc EXCEPT ![t] = "wait_begin"]
                      /\ UNCHANGED <<resp, app_key, new_config>>
                 ELSE Respond(200)
              /\ UNCHANGED <<log, exited, exitCode, isShutDown, shutdownRequest>>
    /\ UNCHANGED <<config, configFile, installed, app_process, http_server, cret,
                   waitPid, pending, sysAction, cecSent, nreq, nsig>>

\* cleanup(), third statement: "if self.http_server: self.http_server.shutdown()"
\* sets the request flag, then blocks.  The three operators give where
\* cleanup() next blocks: the position, the children and the flag after it.
CleanupShutdown(ps, w) ==
    [pc |-> "cl_shutdown_wait", procs |-> ps, wait |-> w,
     shutdownRequest |-> (shutdownRequest \/ http_server)]

\* cleanup(), second statement: terminate the app and wait for it
CleanupApp(ps, w) ==
    IF app_process # 0
    THEN [pc |-> "cl_app_wait", procs |-> Terminate(ps, app_process),
          wait |-> app_process, shutdownRequest |-> shutdownRequest]
    ELSE CleanupShutdown(ps, w)

\* cleanup(), first statement: terminate the hub and wait for it
CleanupBrowser(ps, w) ==
    IF browser_process # 0
    THEN [pc |-> "cl_hub_wait", procs |-> Terminate(ps, browser_process),
          wait |-> browser_process, shutdownRequest |-> shutdownRequest]
    ELSE CleanupApp(ps, w)

\* context t runs cleanup() from the given statement to its next blocking call
CleanupTo(t, c) ==
    /\ pc' = [pc EXCEPT ![t] = c.pc]
    /\ procs' = c.procs
    /\ waitPid' = [waitPid EXCEPT ![t] = c.wait]
    /\ shutdownRequest' = c.shutdownRequest

\* cleanup(): a wait() on a terminated child returns and cleanup() goes on
CleanupWait(t) ==

    /\ ~exited
    /\ pc[t] \in {"cl_hub_wait", "cl_app_wait"}
    /\ Exited(waitPid[t])
    /\ CleanupTo(t, IF pc[t] = "cl_hub_wait"
                    THEN CleanupApp(procs, waitPid[t])
                    ELSE CleanupShutdown(procs, waitPid[t]))
    /\ UNCHANGED <<config, configFile, installed, browser_process, app_process,
                   http_server, isShutDown, cret, pending, app_key, new_config, resp,
                   log, sysAction, cecSent, exited, exitCode, nreq, nsig>>

\* cleanup() returns once serve_forever has left its loop, and its caller
\* goes on: run() ends, or signal_handler / handle_exit call sys.exit(0)
CleanupReturn(t) ==

    /\ ~exited
    /\ pc[t] = "cl_shutdown_wait"
    /\ http_server => isShutDown
    /\ CASE t = "http" ->
              /\ ThreadExit
              /\ UNCHANGED <<cret, exited, exitCode, procs, waitPid>>
         [] t = "main" /\ cret[t] = "signal_try" ->
              \* SystemExit unwinds into the finally clause of run()
              /\ CleanupTo(t, CleanupBrowser(procs, waitPid[t]))
              /\ cret' = [cret EXCEPT ![t] = "finally"]
              /\ UNCHANGED <<exited, exitCode, isShutDown>>
         [] OTHER ->
              /\ ProcessExit(0)
              /\ UNCHANGED <<cret, isShutDown, shutdownRequest, procs, waitPid>>
    /\ UNCHANGED <<config, configFile, installed, browser_process, app_process,
                   http_server, pending, app_key, new_config, resp, log, sysAction,
                   cecSent, nreq, nsig>>

-----------------------------------------------------------------------------
(* The main thread: run() *)

\* as StartHttpServer, with run() going on to launch_browser without the
\* readiness probe
StartHttpServer_SkipsProbe ==

    /\ ~exited
    /\ pc["main"] = "start"
    /\ http_server' = TRUE
    /\ pc' = [main |-> "launch_hub", http |-> "idle"]
    /\ UNCHANGED <<config, configFile, installed, procs, browser_process, app_process,
                   shutdownRequest, isShutDown, cret, waitPid, pending, app_key,
                   new_config, resp, log, sysAction, cecSent, exited, exitCode, nreq,
                   nsig>>

\* start_http_server(): bind the listening socket and start the daemon
\* thread that runs serve_forever
StartHttpServer ==

    /\ ~exited
    /\ pc["main"] = "start"
    /\ \E bound \in BOOLEAN :
         IF bound
         THEN /\ http_server' = TRUE
              /\ pc' = [main |-> "probe", http |-> "idle"]
              /\ UNCHANGED <<exited, exitCode>>
         ELSE /\ ProcessExit(1)
              /\ UNCHANGED http_server
    /\ UNCHANGED <<config, configFile, installed, procs, browser_process, app_process,
                   shutdownRequest, isShutDown, cret, waitPid, pending, app_key,
                   new_config, resp, log, sysAction, cecSent, nreq, nsig>>

\* wait_for_server_ready(timeout=10) and the test of its result in run()
WaitForServerReady ==

    /\ ~exited
    /\ pc["main"] = "probe"
    /\ \E ready \in BOOLEAN :
         IF ready
         THEN /\ pc' = [pc EXCEPT !["main"] = "launch_hub"]
              /\ UNCHANGED <<exited, exitCode>>
         ELSE ProcessExit(1)
    /\ UNCHANGED <<config, configFile, installed, procs, browser_process, app_process,
                   http_server, shutdownRequest, isShutDown, cret, waitPid, pending,
                   app_key, new_config, resp, log, sysAction, cecSent, nreq, nsig>>

\* run(): "if self.browser_process: self.browser_process.wait()" is entered
MainWaitBegin ==

    /\ ~exited
    /\ pc["main"] = "wait_begin"
    /\ waitPid' = [waitPid EXCEPT !["main"] = browser_process]
    /\ pc' = [pc EXCEPT !["main"] = "wait_hub"]
    /\ UNCHANGED <<config, configFile, installed, procs, browser_process, app_process,
                   http_server, shutdownRequest, isShutDown, cret, pending, app_key,
                   new_config, resp, log, sysAction, cecSent, exited, exitCode, nreq,
                   nsig>>

\* run(): the wait on the hub returns and the finally clause calls cleanup()
MainWaitHub ==

    /\ ~exited
    /\ pc["main"] = "wait_hub"
    /\ Exited(waitPid["main"])
    /\ CleanupTo("main", CleanupBrowser(procs, waitPid["main"]))
    /\ cret' = [cret EXCEPT !["main"] = "finally"]
    /\ UNCHANGED <<config, configFile, installed, browser_process, app_process,
                   http_server, isShutDown, pending, app_key, new_config, resp, log,
                   sysAction, cecSent, exited, exitCode, nreq, nsig>>

\* signal_handler(): SIGINT or SIGTERM interrupts the main thread wherever it
\* is and calls cleanup(), then sys.exit(0)
SignalHandler ==

    /\ ~exited
    /\ nsig < MaxSignals
    /\ nsig' = nsig + 1
    /\ CleanupTo("main", CleanupBrowser(procs, waitPid["main"]))
    /\ cret' = [cret EXCEPT !["main"] =
                  IF pc["main"] \in {"wait_begin", "wait_hub"} \/ cret["main"] = "signal_try"
                  THEN "signal_try" ELSE "signal"]
    /\ UNCHANGED <<config, configFile, installed, browser_process, app_process,
                   http_server, isShutDown, pending, app_key, new_config, resp, log,
                   sysAction, cecSent, exited, exitCode, nreq>>

-----------------------------------------------------------------------------
(* The environment *)

\* a child ends by itself (the user closes it, or it crashes)
ProcQuit(p) ==

    /\ ~exited
    /\ p \in Pids
    /\ procs[p].st = "running"
    /\ procs' = [procs EXCEPT ![p].st = "exited"]
    /\ UNCHANGED <<config, configFile, installed, browser_process, app_process,
                   http_server, shutdownRequest, isShutDown, pc, cret, waitPid,
                   pending, app_key, new_config, resp, log, sysAction, cecSent, exited,
                   exitCode, nreq, nsig>>

\* a child that was sent SIGTERM ends
ProcDie(p) ==

    /\ ~exited
    /\ p \in Pids
    /\ procs[p].st = "signalled"
    /\ procs' = [procs EXCEPT ![p].st = "exited"]
    /\ UNCHANGED <<config, configFile, installed, browser_process, app_process,
                   http_server, shutdownRequest, isShutDown, pc, cret, waitPid,
                   pending, app_key, new_config, resp, log, sysAction, cecSent, exited,
                   exitCode, nreq, nsig>>

\* a client connects to the listening socket and sends a request; the
\* clients are the pages shown by the browsers the launcher starts, so no
\* request arrives before the first hub has been launched
Arrive(r) ==

    /\ ~exited
    /\ http_server
    /\ browser_process # 0
    /\ nreq < MaxRequests
    /\ Len(pending) < MaxPending
    /\ pending' = Append(pending, r)
    /\ nreq' = nreq + 1
    /\ UNCHANGED <<config, configFile, installed, procs, browser_process, app_process,
                   http_server, shutdownRequest, isShutDown, pc, cret, waitPid,
                   app_key, new_config, resp, log, sysAction, cecSent, exited,
                   exitCode, nsig>>

\* the browser package is removed while the launcher runs; only
\* find_chromium observes it, so the removal is placed where a caller of
\* find_chromium is about to run
EnvChange ==

    /\ ~exited
    /\ "chromium-browser" \in installed
    /\ \E t \in Threads : pc[t] \in {"launch_hub", "restart_hub", "launch_browser_app"}
    /\ installed' = installed \ {"chromium-browser"}
    /\ UNCHANGED <<config, configFile, procs, browser_process, app_process,
                   http_server, shutdownRequest, isShutDown, pc, cret, waitPid,
                   pending, app_key, new_config, resp, log, sysAction, cecSent, exited,
                   exitCode, nreq, nsig>>

-----------------------------------------------------------------------------
(* The listener thread: serve_forever and the request handlers it calls *)

\* serve_forever() sees the shutdown request between two requests and returns
ServeForeverExit ==

    /\ ~exited
    /\ pc["http"] = "idle"
    /\ shutdownRequest
    /\ pc' = [pc EXCEPT !["http"] = "stopped"]
    /\ isShutDown' = TRUE
    /\ shutdownRequest' = FALSE
    /\ UNCHANGED <<config, configFile, installed, procs, browser_process, app_process,
                   http_server, cret, waitPid, pending, app_key, new_config, resp, log,
                   sysAction, cecSent, exited, exitCode, nreq, nsig>>

\* the handler returns and serve_forever() goes back to its loop
FinishRequest ==

    /\ ~exited
    /\ pc["http"] = "responded"
    /\ pc' = [pc EXCEPT !["http"] = "idle"]
    /\ resp' = 0
    /\ log' = {}
    /\ app_key' = ""
    /\ new_config' = EmptyDoc
    /\ UNCHANGED <<config, configFile, installed, procs, browser_process, app_process,
                   http_server, shutdownRequest, isShutDown, cret, waitPid, pending,
                   sysAction, cecSent, exited, exitCode, nreq, nsig>>

\* as do_GET, with a request taken while an earlier handler is still in its
\* wait on the app
do_GET_Threaded ==

    /\ ~exited
    /\ pc["http"] \in {"idle", "app_wait"}
    /\ ~shutdownRequest
    /\ pending # <<>>
    /\ Head(pending).method = "GET"
    /\ pending' = Tail(pending)
    /\ UNCHANGED log
    /\ LET path == Head(pending).path
       IN  IF path = <<"/api/config">>
           THEN /\ pc' = [pc EXCEPT !["http"] = "send_config"]
                /\ UNCHANGED resp
                /\ UNCHANGED <<app_key, new_config>>
           ELSE IF StartsWithLaunch(path) /\ handle_launch_request(path) = "exit"
           THEN /\ pc' = [pc EXCEPT !["http"] = "handle_exit"]
                /\ UNCHANGED resp
                /\ UNCHANGED <<app_key, new_config>>
           ELSE IF StartsWithLaunch(path) /\ handle_launch_request(path) = "launch_app"
           THEN /\ pc' = [pc EXCEPT !["http"] = "launch_app"]
                /\ UNCHANGED resp
                /\ app_key' = AppKeyOf(path)
                /\ UNCHANGED new_config
           ELSE \* a /launch path without a command, or a static file served
                \* by SimpleHTTPRequestHandler.do_GET
                Respond(200)
    /\ UNCHANGED <<config, configFile, installed, procs, browser_process, app_process,
                   http_server, shutdownRequest, isShutDown, cret, waitPid, sysAction,
                   cecSent, exited, exitCode, nreq, nsig>>

\* serve_forever() takes the next connection; do_GET routes the request and,
\* for a /launch path, handle_launch_request decodes the command
do_GET ==

    /\ ~exited
    /\ pc["http"] = "idle"
    /\ ~shutdownRequest
    /\ pending # <<>>
    /\ Head(pending).method = "GET"
    /\ pending' = Tail(pending)
    /\ UNCHANGED log
    /\ LET path == Head(pending).path
       IN  IF path = <<"/api/config">>
           THEN /\ pc' = [pc EXCEPT !["http"] = "send_config"]
                /\ UNCHANGED resp
                /\ UNCHANGED <<app_key, new_config>>
           ELSE IF StartsWithLaunch(path) /\ handle_launch_request(path) = "exit"
           THEN /\ pc' = [pc EXCEPT !["http"] = "handle_exit"]
                /\ UNCHANGED resp
                /\ UNCHANGED <<app_key, new_config>>
           ELSE IF StartsWithLaunch(path) /\ handle_launch_request(path) = "launch_app"
           THEN /\ pc' = [pc EXCEPT !["http"] = "launch_app"]
                /\ UNCHANGED resp
                /\ app_key' = AppKeyOf(path)
                /\ UNCHANGED new_config
           ELSE \* a /launch path without a command, or a static file served
                \* by SimpleHTTPRequestHandler.do_GET
                Respond(200)
    /\ UNCHANGED <<config, configFile, installed, procs, browser_process, app_process,
                   http_server, shutdownRequest, isShutDown, cret, waitPid, sysAction,
                   cecSent, exited, exitCode, nreq, nsig>>

\* serve_forever() takes the next connection; do_POST routes the request and
\* save_config_api parses its body
do_POST ==

    /\ ~exited
    /\ pc["http"] = "idle"
    /\ ~shutdownRequest
    /\ pending # <<>>
    /\ Head(pending).method = "POST"
    /\ pending' = Tail(pending)
    /\ UNCHANGED log
    /\ IF Head(pending).path = <<"/api/config">>
       THEN /\ pc' = [pc EXCEPT !["http"] = "save_config_api"]
            /\ UNCHANGED resp
            /\ new_config' = Head(pending).body
            /\ UNCHANGED app_key
       ELSE Respond(404)
    /\ UNCHANGED <<config, configFile, installed, procs, browser_process, app_process,
                   http_server, shutdownRequest, isShutDown, cret, waitPid, sysAction,
                   cecSent, exited, exitCode, nreq, nsig>>

\* load_config(): the document in CONFIG_FILE, when it parses
load_config == json_load(configFile.text)

\* send_config(): reload the configuration from disk and send it
send_config ==

    /\ ~exited
    /\ pc["http"] = "send_config"
    /\ IF configFile.state = "ok"
       THEN /\ config' = load_config
            /\ Respond(200)
            /\ UNCHANGED <<isShutDown, shutdownRequest>>
       ELSE \* json.load fails and load_config calls sys.exit(1)
            /\ ThreadExit
            /\ UNCHANGED <<config, resp, app_key, new_config>>
    /\ UNCHANGED <<configFile, installed, procs, browser_process, app_process,
                   http_server, cret, waitPid, pending, log, sysAction, cecSent,
                   exited, exitCode, nreq, nsig>>

\* save_config_api(): open(CONFIG_FILE, 'w') truncates the file
save_config_api ==

    /\ ~exited
    /\ pc["http"] = "save_config_api"
    /\ configFile' = [state |-> "truncated", text |-> {}]
    /\ Goto("save_dump")
    /\ UNCHANGED <<config, installed, procs, browser_process, app_process, http_server,
                   shutdownRequest, isShutDown, cret, waitPid, pending, log, sysAction,
                   cecSent, exited, exitCode, nreq, nsig>>

\* save_config_api(): json.dump writes the document, self.config is replaced
\* and the success envelope is sent; a failing write is answered with 500
save_dump ==

    /\ ~exited
    /\ pc["http"] = "save_dump"
    /\ \E written \in BOOLEAN :
         IF written
         THEN /\ configFile' = [state |-> "ok", text |-> json_dump(new_config)]
              /\ config' = new_config
              /\ Respond(200)
         ELSE /\ Respond(500)
              /\ UNCHANGED <<config, configFile>>
    /\ UNCHANGED <<installed, procs, browser_process, app_process, http_server,
                   shutdownRequest, isShutDown, cret, waitPid, pending, log, sysAction,
                   cecSent, exited, exitCode, nreq, nsig>>

-----------------------------------------------------------------------------
(* launch_app and its callees, run by the listener thread *)

\* app_key in self.config['apps']
KnownApp(cfg, key) == key \in DOMAIN cfg["apps"]

\* as Enabled, with the default of a missing field turned around
Enabled_DefaultTrue(app) == Get(app, "enabled", TRUE)

\* app.get('enabled', False)
Enabled(app) == Get(app, "enabled", FALSE)

\* app.get('launch_method', 'browser')
Method(app) == Get(app, "launch_method", "browser")

\* as NativeFirst, with prefer_native ignored for the auto method
NativeFirst_IgnoresPrefer(app) == Method(app) = "native"

\* launch_app calls launch_native_app before anything else
NativeFirst(app) ==
    \/ Method(app) = "native"
    \/ Method(app) = "auto" /\ Get(app, "prefer_native", FALSE)

\* as FallsBack, with the fallback taken for every method
FallsBack_Always(app) == TRUE

\* launch_app calls launch_browser_app once launch_native_app has returned False
FallsBack(app) == Method(app) = "auto"

\* the binary launch_native_app runs for the key, "" when it has none
NativeCandidate(key, inst) ==
    IF key \in DOMAIN native_apps
    THEN FirstInstalled(native_apps[key], inst)
    ELSE ""

\* as TargetUrl, with the hub page opened in place of the app
TargetUrl_Hub(app) == HubUrl

\* url = app['url']
TargetUrl(app) == app["url"]

\* app = self.config['apps'][app_key]
CurApp == config["apps"][app_key]

\* as ClosesHub, with the browser closed ahead of the two checks
ClosesHub_Always(cfg, key) == TRUE

\* launch_app gets past its two early returns, to "Close current browser"
ClosesHub(cfg, key) == KnownApp(cfg, key) /\ Enabled(cfg["apps"][key])

\* launch_app(app_key) up to the choice of the launch method
launch_app ==

    /\ ~exited
    /\ pc["http"] = "launch_app"
    /\ IF ~Has(config, "apps")
       THEN \* KeyError, caught by do_GET
            /\ Respond(500)
            /\ UNCHANGED <<procs, log>>
       ELSE /\ procs' = IF ClosesHub(config, app_key) /\ browser_process # 0
                        THEN Terminate(procs, browser_process)
                        ELSE procs
            /\ IF ~KnownApp(config, app_key)
               THEN /\ log' = log \cup {"Unknown app"}
                    /\ Respond(200)
               ELSE IF ~Enabled(CurApp)
               THEN /\ log' = log \cup {"App is disabled"}
                    /\ Respond(200)
               ELSE /\ Goto(IF NativeFirst(CurApp) THEN "launch_native_app"
                            ELSE "launch_browser_app")
                    /\ UNCHANGED log
    /\ UNCHANGED <<config, configFile, installed, browser_process, app_process,
                   http_server, shutdownRequest, isShutDown, cret, waitPid, pending,
                   sysAction, cecSent, exited, exitCode, nreq, nsig>>

\* launch_native_app(app_key, app) up to the blocking wait, and what
\* launch_app does with a False result
launch_native_app ==

    /\ ~exited
    /\ pc["http"] = "launch_native_app"
    /\ \E ok \in BOOLEAN :
         IF NativeCandidate(app_key, installed) # "" /\ ok
         THEN /\ procs' = Popen("native",
                                NativeCmdline(app_key, NativeCandidate(app_key, installed)))
              /\ app_process' = Len(procs) + 1
              /\ waitPid' = [waitPid EXCEPT !["http"] = Len(procs) + 1]
              /\ log' = log \cup {"Launching native app"}
              /\ Goto("app_wait")
         ELSE /\ log' = log \cup
                   {CASE app_key \notin DOMAIN native_apps -> "No native app defined"
                      [] NativeCandidate(app_key, installed) = "" -> "No native app found"
                      [] OTHER -> "Failed to launch"}
              /\ IF FallsBack(CurApp)
                 THEN Goto("launch_browser_app")
                 ELSE Respond(200)
              /\ UNCHANGED <<procs, app_process, waitPid>>
    /\ UNCHANGED <<config, configFile, installed, browser_process, http_server,
                   shutdownRequest, isShutDown, cret, pending, sysAction, cecSent,
                   exited, exitCode, nreq, nsig>>

\* launch_browser_app(app) up to the blocking wait
launch_browser_app ==

    /\ ~exited
    /\ pc["http"] = "launch_browser_app"
    /\ \E ok \in BOOLEAN :
         IF find_chromium(installed) = ""
         THEN /\ log' = log \cup {"Chromium not found!"}
              /\ Respond(200)
              /\ UNCHANGED <<procs, app_process, waitPid>>
         ELSE IF ~Has(config, "advanced")
         THEN \* KeyError, caught by do_GET
              /\ Respond(500)
              /\ UNCHANGED <<procs, app_process, waitPid, log>>
         ELSE IF ok
         THEN /\ procs' = Popen("browser_app",
                                BrowserAppCmdline(installed, config, TargetUrl(CurApp)))
              /\ app_process' = Len(procs) + 1
              /\ waitPid' = [waitPid EXCEPT !["http"] = Len(procs) + 1]
              /\ log' = log \cup {"Launching browser app"}
              /\ Goto("app_wait")
         ELSE /\ log' = log \cup {"Launching browser app", "Failed to launch browser app"}
              /\ Respond(200)
              /\ UNCHANGED <<procs, app_process, waitPid>>
    /\ config' = IF find_chromium(installed) # "" /\ Has(config, "advanced")
                 THEN [config EXCEPT !["advanced"]["chromium_flags"] =
                          ConfigFlagsAfter(config, TargetUrl(CurApp))]
                 ELSE config
    /\ UNCHANGED <<configFile, installed, browser_process, http_server,
                   shutdownRequest, isShutDown, cret, pending, sysAction, cecSent,
                   exited, exitCode, nreq, nsig>>

\* as AppWait, with the call of restart_hub() left out
AppWait_NoRestart ==

    /\ ~exited
    /\ pc["http"] = "app_wait"
    /\ Exited(waitPid["http"])
    /\ Respond(200)
    /\ UNCHANGED <<config, configFile, installed, procs, browser_process, app_process,
                   http_server, shutdownRequest, isShutDown, cret, waitPid, pending,
                   log, sysAction, cecSent, exited, exitCode, nreq, nsig>>

\* self.app_process.wait() returns: the app has closed, restart_hub() is called
AppWait ==

    /\ ~exited
    /\ pc["http"] = "app_wait"
    /\ Exited(waitPid["http"])
    /\ pc' = [pc EXCEPT !["http"] = "restart_hub"]
    /\ log' = log \cup {"restarting hub"}
    /\ UNCHANGED <<config, configFile, installed, procs, browser_process, app_process,
                   http_server, shutdownRequest, isShutDown, cret, waitPid, pending,
                   app_key, new_config, resp, sysAction, cecSent, exited, exitCode,
                   nreq, nsig>>

-----------------------------------------------------------------------------
(* The exit procedure *)

\* cec_command(command) can reach the cec-client invocation
CecAvailable(cfg, inst) == cfg["remote"]["enable_cec"] /\ "cec-client" \in inst

\* what the cec-client pipeline run by subprocess.run can do: end with status
\* 0, end with another status, outlast the 5 s timeout, or fail to start
CecOutcomes == {"done", "error_exit", "timeout", "oserror"}

\* cec_command(command) for one of the three fixed commands: its result
\* ("KeyError" when the lookup in self.config raises), whether the pipeline
\* was started, and the lines it logs
cec_command(cfg, inst, outcome) ==
    IF ~Has(cfg, "remote") \/ "enable_cec" \notin DOMAIN cfg["remote"]
    THEN [result |-> "KeyError", invoked |-> FALSE, log |-> {}]
    ELSE IF ~cfg["remote"]["enable_cec"]
    THEN [result |-> "False", invoked |-> FALSE, log |-> {"CEC is disabled"}]
    ELSE IF "cec-client" \notin inst
    THEN [result |-> "False", invoked |-> FALSE, log |-> {"cec-client not found"}]
    ELSE IF outcome \in {"timeout", "oserror"}
    THEN [result |-> "False", invoked |-> TRUE,
          log |-> {"Sending CEC command", "CEC command failed"}]
    ELSE \* subprocess.run is called without check: the exit status is not read
         [result |-> "True", invoked |-> TRUE, log |-> {"Sending CEC command"}]

\* as FinalAction, with the fallback never substituted
FinalAction_NoFallback(cfg, standbyOk) == cfg["exit"]["action"]

\* the action handle_exit carries out, given the result of the standby command
FinalAction(cfg, standbyOk) ==
    IF cfg["exit"]["action"] = "cec_standby" /\ ~standbyOk
    THEN Get(cfg["exit"], "cec_fallback", "close")
    ELSE cfg["exit"]["action"]

\* handle_exit() up to the call of cleanup()
handle_exit ==

    /\ ~exited
    /\ pc["http"] = "handle_exit"
    /\ IF \/ ~Has(config, "exit")
          \/ /\ config["exit"]["action"] = "cec_standby"
             /\ cec_command(config, installed, "done").result = "KeyError"
       THEN \* KeyError, caught by do_GET
            /\ Respond(500)
            /\ UNCHANGED <<sysAction, cecSent, cret, procs, waitPid, shutdownRequest, log>>
       ELSE \E outcome \in CecOutcomes :
              LET standby == config["exit"]["action"] = "cec_standby"
                  r == cec_command(config, installed, outcome)
                  action == FinalAction(config, standby /\ r.result = "True")
              IN  /\ cecSent' = IF standby /\ r.invoked THEN cecSent + 1 ELSE cecSent
                  /\ log' = IF ~standby THEN log
                            ELSE IF r.result = "True"
                            THEN log \cup r.log \cup {"TV standby command sent"}
                            ELSE log \cup r.log \cup {"CEC standby failed, using fallback"}
                  /\ IF action \in {"shutdown", "reboot"}
                     THEN /\ sysAction' = action
                          /\ Respond(200)
                          /\ UNCHANGED <<cret, procs, waitPid, shutdownRequest>>
                     ELSE /\ CleanupTo("http", CleanupBrowser(procs, waitPid["http"]))
                          /\ cret' = [cret EXCEPT !["http"] = "exit"]
                          /\ UNCHANGED <<sysAction, resp, app_key, new_config>>
    /\ UNCHANGED <<config, configFile, installed, browser_process, app_process,
                   http_server, isShutDown, pending, exited, exitCode, nreq, nsig>>

-----------------------------------------------------------------------------

Next ==
    \/ StartHttpServer
    \/ WaitForServerReady
    \/ \E t \in Threads : LaunchBrowser(t)
    \/ MainWaitBegin
    \/ MainWaitHub
    \/ \E t \in Threads : CleanupWait(t)
    \/ \E t \in Threads : CleanupReturn(t)
    \/ SignalHandler
    \/ \E p \in Pids : ProcQuit(p)
    \/ \E p \in Pids : ProcDie(p)
    \/ \E r \in Requests : Arrive(r)
    \/ EnvChange
    \/ ServeForeverExit
    \/ FinishRequest
    \/ do_GET
    \/ do_POST
    \/ send_config
    \/ save_config_api
    \/ save_dump
    \/ launch_app
    \/ launch_native_app
    \/ launch_browser_app
    \/ AppWait
    \/ handle_exit

Spec == Init /\ [][Next]_vars

\* Scheduling: both threads keep running while they have a step to take, and
\* a child that was sent SIGTERM ends.  Nothing obliges a client to send a
\* request, a signal to arrive, a running child to end or the browser to be
\* removed.
Fairness ==
    /\ WF_vars(StartHttpServer)
    /\ WF_vars(WaitForServerReady)
    /\ \A t \in Threads : WF_vars(LaunchBrowser(t))
    /\ WF_vars(MainWaitBegin)
    /\ WF_vars(MainWaitHub)
    /\ \A t \in Threads : WF_vars(CleanupWait(t))
    /\ \A t \in Threads : WF_vars(CleanupReturn(t))
    /\ WF_vars(\E p \in Pids : ProcDie(p))
    /\ WF_vars(ServeForeverExit)
    /\ WF_vars(FinishRequest)
    /\ WF_vars(do_GET)
    /\ WF_vars(do_POST)
    /\ WF_vars(send_config)
    /\ WF_vars(save_config_api)
    /\ WF_vars(save_dump)
    /\ WF_vars(launch_app)
    /\ WF_vars(launch_native_app)
    /\ WF_vars(launch_browser_app)
    /\ WF_vars(AppWait)
    /\ WF_vars(handle_exit)

\* The fair behaviours are explored from two of the initial configurations.
FairChoices ==
    {<<Doc(AppsOf("default"), ExitClose, FALSE), {}>>,
     <<Doc(AppsOf("auto_pref"), ExitClose, FALSE),
       {"jellyfinmediaplayer", "jellyfin-media-player", "spotify"}>>}

FairInit == Init /\ <<config, installed \ {"chromium-browser"}>> \in FairChoices

FairSpec == FairInit /\ [][Next]_vars /\ Fairness

-----------------------------------------------------------------------------
(* Session processes *)

AliveSessions == {p \in Pids : Alive(p)}

\* C1: at most one session process started by the launcher is alive in
\* every reachable state.
C1_SingleForeground == Cardinality(AliveSessions) <= 1

\* C2: while a handler is blocked in the wait on a launched app, the
\* listener can take the next queued request.
C2_ListenerServesDuringWait ==
    (~exited /\ pc["http"] = "app_wait" /\ pending # <<>> /\ ~shutdownRequest)
        => ENABLED (do_GET \/ do_POST)

\* C3: an exit request that resolves to close leads to every session process
\* having ended, the listener stopped and the process exited with status 0.
C3_ExitCloseTerminates ==
    (cret["http"] = "exit")
        ~> (exited /\ exitCode = 0 /\ isShutDown /\ AliveSessions = {})

-----------------------------------------------------------------------------
(* Return to the hub *)

\* the handler thread takes a step out of position p
Leaves(p) == pc["http"] = p /\ pc'["http"] # p

\* a hub started after the latest app is the current browser and is running
HubForeground ==
    /\ browser_process \in Pids
    /\ browser_process > app_process
    /\ procs[browser_process].kind = "hub"
    /\ procs[browser_process].st = "running"

SpawnsHub ==
    /\ Len(procs') = Len(procs) + 1
    /\ SubSeq(procs', 1, Len(procs)) = procs
    /\ procs'[Len(procs')].kind = "hub"
    /\ procs'[Len(procs')].st = "running"
    /\ browser_process' = Len(procs')

-----------------------------------------------------------------------------
(* launch_app: the requests that start nothing *)

\* the session processes and the two handles are left as they are
SessionUnchanged == UNCHANGED <<procs, browser_process, app_process>>

\* the entry of the requested key in the 'apps' section
RequestedApp == config["apps"][app_key]

KeyConfigured == Has(config, "apps") /\ app_key \in DOMAIN config["apps"]

\* C5: launch_app on a key with no entry in the 'apps' section changes no
\* session process and no handle, and returns.
C5_UnknownKeyNoChange ==
    [][(Leaves("launch_app") /\ Has(config, "apps")
            /\ app_key \notin DOMAIN config["apps"])
        => (SessionUnchanged /\ pc'["http"] = "responded")]_vars

C5_Witness ==
    /\ pc["http"] = "responded"
    /\ "Unknown app" \in log
    /\ app_key = "ghost"
    /\ Alive(browser_process)
    /\ app_process = 0

\* C6: launch_app on an app whose entry has 'enabled' false, or has no
\* 'enabled' field, changes no session process and no handle, and returns.
C6_DisabledNoChange ==
    [][(Leaves("launch_app") /\ KeyConfigured
            /\ ("enabled" \notin DOMAIN RequestedApp \/ RequestedApp["enabled"] = FALSE))
        => (SessionUnchanged /\ pc'["http"] = "responded")]_vars

C6_Witness ==
    /\ pc["http"] = "responded"
    /\ "App is disabled" \in log
    /\ KeyConfigured
    /\ "enabled" \notin DOMAIN RequestedApp
    /\ Alive(browser_process)

\* C7: every GET of /launch/app/<key> that the listener has taken ends with
\* the response 200.
C7_LaunchAnswered200 ==
    [][(pc["http"] \in {"launch_app", "launch_native_app", "launch_browser_app",
                        "app_wait", "restart_hub"}
            /\ pc'["http"] # pc["http"]
            /\ pc'["http"] \notin {"launch_native_app", "launch_browser_app",
                                   "app_wait", "restart_hub"})
        => (pc'["http"] = "responded" /\ resp' = 200)]_vars

-----------------------------------------------------------------------------
(* launch_app: native or browser *)

MethodIs(m) == Get(RequestedApp, "launch_method", "browser") = m

NativeInstalled ==
    /\ app_key \in DOMAIN native_apps
    /\ \E i \in DOMAIN native_apps[app_key] : native_apps[app_key][i] \in installed

\* this step spawns a process of kind k and makes it the current app
SpawnsApp(k) ==
    /\ Len(procs') = Len(procs) + 1
    /\ SubSeq(procs', 1, Len(procs)) = procs
    /\ procs'[Len(procs')].kind = k
    /\ app_process' = Len(procs')

PrefersNativeAuto ==
    /\ KeyConfigured
    /\ MethodIs("auto")
    /\ Get(RequestedApp, "prefer_native", FALSE) = TRUE
    /\ NativeInstalled

\* C8 as stated: for an app with method auto, prefer_native true and a native
\* candidate installed, launch_app spawns no browser process for the app.
C8_NoBrowserWhenNative ==
    [][(pc["http"] = "launch_browser_app" /\ PrefersNativeAuto)
        => ~SpawnsApp("browser_app")]_vars

\* C8 as amended: for such an app launch_app spawns the native candidate
\* first, and spawns a browser process for the app only after the spawn of
\* the native candidate has failed.
C8_BrowserOnlyAfterNativeFailed ==
    /\ [][(Leaves("launch_app") /\ PrefersNativeAuto
              /\ RequestedApp["enabled"] = TRUE /\ "enabled" \in DOMAIN RequestedApp)
            => pc'["http"] = "launch_native_app"]_vars
    /\ [][(Leaves("launch_native_app") /\ PrefersNativeAuto)
            => \/ SpawnsApp("native") /\ pc'["http"] = "app_wait"
               \/ UNCHANGED procs /\ "Failed to launch" \in log']_vars
    /\ [][(pc["http"] = "launch_browser_app" /\ PrefersNativeAuto
              /\ SpawnsApp("browser_app"))
            => "Failed to launch" \in log]_vars

C8_Witness ==
    /\ pc["http"] = "app_wait"
    /\ PrefersNativeAuto
    /\ procs[app_process].kind = "native"
    /\ Alive(app_process)

AutoWithoutNative ==
    /\ KeyConfigured
    /\ MethodIs("auto")
    /\ ~NativeInstalled

\* the command line of the current app ends with the configured URL of the
\* requested app
AppTargetsUrl(ps, p) == ps[p].cmd[Len(ps[p].cmd)] = RequestedApp["url"]

\* C9 as stated: for an enabled app with method auto and no native candidate
\* installed, launch_app spawns a browser process whose target is the app's
\* configured URL.
C9_BrowserSpawnedWithUrl ==
    [][(Leaves("launch_browser_app") /\ AutoWithoutNative /\ Has(config, "advanced"))
        => (SpawnsApp("browser_app") /\ AppTargetsUrl(procs', app_process'))]_vars

\* C9 as amended: for such an app launch_app starts no native process and
\* gets to the browser launch; there, if a browser binary is found, it either
\* spawns a browser process whose last argument is the app's configured URL
\* or logs the failed spawn, and if none is found it spawns nothing.
C9_BrowserAttemptedWithUrl ==
    /\ [][(Leaves("launch_app") /\ AutoWithoutNative
              /\ "enabled" \in DOMAIN RequestedApp /\ RequestedApp["enabled"] = TRUE)
            => /\ pc'["http"] \in {"launch_native_app", "launch_browser_app"}
               /\ UNCHANGED app_process]_vars
    /\ [][(Leaves("launch_native_app") /\ AutoWithoutNative)
            => (pc'["http"] = "launch_browser_app" /\ UNCHANGED <<procs, app_process>>)]_vars
    /\ [][(Leaves("launch_browser_app") /\ AutoWithoutNative /\ Has(config, "advanced"))
            => IF find_chromium(installed) = ""
               THEN UNCHANGED <<procs, app_process>> /\ "Chromium not found!" \in log'
               ELSE \/ /\ SpawnsApp("browser_app")
                       /\ AppTargetsUrl(procs', app_process')
                       /\ pc'["http"] = "app_wait"
                    \/ /\ UNCHANGED <<procs, app_process>>
                       /\ "Failed to launch browser app" \in log']_vars

C9_Witness ==
    /\ pc["http"] = "app_wait"
    /\ AutoWithoutNative
    /\ Get(RequestedApp, "prefer_native", FALSE) = TRUE
    /\ "Launching browser app" \in log
    /\ procs[app_process].kind = "browser_app"
    /\ AppTargetsUrl(procs, app_process)

NativeOnlyWithoutCandidate ==
    /\ KeyConfigured
    /\ MethodIs("native")
    /\ ~NativeInstalled

\* C10: for an enabled app with method native that has no entry in the
\* native table, or none of whose candidates is installed, launch_app spawns
\* no process and does not go on to the browser launch.
C10_NativeOnlyNoFallback ==
    /\ [][(Leaves("launch_app") /\ NativeOnlyWithoutCandidate
              /\ "enabled" \in DOMAIN RequestedApp /\ RequestedApp["enabled"] = TRUE)
            => (pc'["http"] = "launch_native_app" /\ Len(procs') = Len(procs))]_vars
    /\ [][(Leaves("launch_native_app") /\ NativeOnlyWithoutCandidate)
            => /\ UNCHANGED <<procs, browser_process, app_process>>
               /\ pc'["http"] = "responded"]_vars

C10_Witness ==
    /\ pc["http"] = "responded"
    /\ NativeOnlyWithoutCandidate
    /\ "enabled" \in DOMAIN RequestedApp /\ RequestedApp["enabled"] = TRUE
    /\ log \cap {"No native app defined", "No native app found"} # {}
    /\ "Launching native app" \notin log
    /\ AliveSessions = {}

-----------------------------------------------------------------------------
(* The configuration write path *)

\* the listener thread is inside the handler of POST /api/config
InSave == pc["http"] \in {"save_config_api", "save_dump"}

\* the posted document has the six required top-level keys
Complete(doc) == RequiredKeys \subseteq DOMAIN doc

\* C11: a POST of /api/config whose document lacks a required top-level key
\* is answered with a 4xx status, and neither the file on disk nor the
\* in-memory configuration is changed by its handler.
C11_PartialDocumentRejected ==
    [][(InSave /\ ~Complete(new_config))
        => /\ UNCHANGED <<config, configFile>>
           /\ (pc'["http"] = "responded" => resp' \in 400..499)]_vars

\* C12: a POST of /api/config with a complete document that is answered 200
\* leaves on disk a text that loads as the posted document; no step outside
\* the POST handler changes the file; and a GET of /api/config answered 200
\* sends the document the file loads as.  A GET that follows the POST with no
\* POST between them therefore returns the posted document.
C12_RoundTrip ==
    /\ [][(Leaves("save_dump") /\ Complete(new_config) /\ resp' = 200)
            => /\ configFile'.state = "ok"
               /\ json_load(configFile'.text) = new_config
               /\ config' = new_config]_vars
    /\ [][~InSave => UNCHANGED configFile]_vars
    /\ [][(Leaves("send_config") /\ pc'["http"] = "responded")
            => /\ resp' = 200
               /\ config' = json_load(configFile.text)
               /\ UNCHANGED configFile]_vars

\* the POST of a complete document has been answered 200 and the GET of
\* /api/config that follows it is waiting to be taken
C12_Witness ==
    /\ pc["http"] = "responded"
    /\ resp = 200
    /\ Complete(new_config)
    /\ config = new_config
    /\ json_load(configFile.text) = new_config
    /\ pending # <<>>
    /\ Head(pending).method = "GET"
    /\ Head(pending).path = <<"/api/config">>

-----------------------------------------------------------------------------
(* The exit procedure and the CEC command *)

\* handle_exit is about to run with the exit action cec_standby
StandbyRequested ==
    /\ pc["http"] = "handle_exit"
    /\ Has(config, "exit")
    /\ config["exit"]["action"] = "cec_standby"

\* C13: whatever the cec-client pipeline does, the call of cec_command made
\* by handle_exit does not raise; it returns False without starting the
\* pipeline when CEC is disabled or cec-client is absent; and it returns
\* False when the pipeline times out, cannot be started, or ends in error.
C13_CecFailuresReported ==
    StandbyRequested =>
        \A outcome \in CecOutcomes :
            LET r == cec_command(config, installed, outcome)
            IN  /\ r.result \in {"True", "False"}
                /\ (~config["remote"]["enable_cec"] \/ "cec-client" \notin installed)
                       => (~r.invoked /\ r.result = "False")
                /\ outcome # "done" => r.result = "False"

\* the fallback configured for a failed standby
ConfiguredFallback ==
    IF "cec_fallback" \in DOMAIN config["exit"]
    THEN config["exit"]["cec_fallback"] ELSE "close"

-----------------------------------------------------------------------------
(* Signals *)

\* C15: when the process has exited after SIGINT or SIGTERM arrived, its
\* status is 0, the listener has stopped and no session process is alive.
C15_SignalExitsClean ==
    (exited /\ nsig > 0)
        => (exitCode = 0 /\ (http_server => isShutDown) /\ AliveSessions = {})

-----------------------------------------------------------------------------
(* Startup *)

\* C16: the first process is spawned by the main thread at its call of
\* launch_browser, which it reaches only from a readiness probe that
\* succeeded; a probe that fails ends the process with status 1 and with no
\* process spawned, and nothing is spawned after the process has ended.
C16_HubAfterReadiness ==
    /\ [][(procs = <<>> /\ procs' # <<>>)
            => (pc["main"] = "launch_hub" /\ SpawnsHub)]_vars
    /\ [][(pc["main"] # "launch_hub" /\ pc'["main"] = "launch_hub")
            => (pc["main"] = "probe" /\ http_server /\ procs = <<>>)]_vars
    /\ [][(pc["main"] = "probe" /\ pc'["main"] = "done")
            => (exited' /\ exitCode' = 1 /\ procs' = <<>>)]_vars
    /\ [][exited => UNCHANGED <<procs, exited, exitCode>>]_vars

\* the hub has been launched after a successful probe, the listener serving
C16_Witness ==
    /\ pc["main"] = "wait_begin"
    /\ pc["http"] = "idle"
    /\ http_server
    /\ Len(procs) = 1
    /\ procs[1].kind = "hub"
    /\ browser_process = 1
    /\ nsig = 0

-----------------------------------------------------------------------------
(* start_hub without a browser binary *)

\* context t is at its call of launch_browser and takes it
CallsLaunchBrowser(t) ==
    /\ pc[t] = (IF t = "main" THEN "launch_hub" ELSE "restart_hub")
    /\ pc'[t] # pc[t]
    /\ nsig' = nsig

\* C17: every call of launch_browser made when no browser binary is found,
\* from run() or from restart_hub, ends the process with a non-zero status.
C17_NoBrowserIsFatal ==
    [][\A t \in Threads :
          (CallsLaunchBrowser(t) /\ find_chromium(installed) = "")
              => (exited' /\ exitCode' # 0)]_vars

-----------------------------------------------------------------------------
(* Decoding of /launch paths *)

\* the path is /launch/app/<key>?<query>
HasQuery(path) ==
    /\ Len(path) >= 3
    /\ path[1] = "/launch/app/"
    /\ path[3] = "?"

\* C18: a GET of /launch/app/<key>?<query> is forwarded as launch_app(<key>)
\* whatever the query string is.
C18_QueryIgnored ==
    [][(pc["http"] = "idle" /\ pc'["http"] # "idle" /\ pending # <<>>
            /\ Head(pending).method = "GET" /\ HasQuery(Head(pending).path)
            /\ pc'["http"] # "stopped")
        => (pc'["http"] = "launch_app" /\ app_key' = Head(pending).path[2])]_vars

-----------------------------------------------------------------------------
(* The two execution contexts *)

\* positions inside cleanup()
CleanupPositions == {"cl_hub_wait", "cl_app_wait", "cl_shutdown_wait"}

\* the listener thread is inside launch_app, past the termination of the hub
LaunchInProgress ==
    pc["http"] \in {"launch_native_app", "launch_browser_app", "app_wait",
                    "restart_hub"}

\* C19: while an app launch is in progress the main thread does not enter
\* cleanup() unless a signal has arrived: the end of the hub that launch_app
\* terminated does not bring the controller down.
C19_NoCleanupOnLaunch ==
    [][(LaunchInProgress /\ pc["main"] \notin CleanupPositions
            /\ pc'["main"] \in CleanupPositions)
        => nsig' = nsig + 1]_vars

\* C20: the in-memory configuration and the two process handles are
\* assigned by steps of the main thread only, never by a step of the
\* listener thread.
C20_SingleWriter ==
    [][(config' # config \/ browser_process' # browser_process
            \/ app_process' # app_process)
        => pc'["http"] = pc["http"]]_vars

-----------------------------------------------------------------------------
(* After an exit request *)

\* handle_exit has resolved an exit request to shutdown or reboot, or to
\* close
ExitProcessed == sysAction # "none" \/ cret["http"] = "exit"

\* C21: once an exit request has been processed, no step of a later
\* launch_app terminates or spawns a session process.
C21_ExitingAbsorbing ==
    [][(ExitProcessed /\ (Leaves("launch_app") \/ Leaves("launch_native_app")
                            \/ Leaves("launch_browser_app") \/ Leaves("restart_hub")))
        => UNCHANGED procs]_vars

\* C22: the configuration file holds a complete document in every state,
\* during a POST of /api/config and after it.
C22_AtomicWrite == configFile.state = "ok"

\* C23: when a launch_app call on a known, enabled app returns, the current
\* browser handle is a running hub.
C23_HubAfterLaunch ==
    [][(LaunchInProgress /\ pc'["http"] = "responded")
        => /\ browser_process' \in DOMAIN procs'
           /\ procs'[browser_process'].kind = "hub"
           /\ procs'[browser_process'].st = "running"]_vars

-----------------------------------------------------------------------------
(* One launch at a time *)

\* C24: a request is taken from the listening socket only while no handler
\* is running, so a launch_app starts only when no launch_app is between
\* its termination of the hub and its restart of the hub.
C24_LaunchesDoNotOverlap ==
    /\ [][Len(pending') < Len(pending) => pc["http"] = "idle"]_vars
    /\ [][(pc["http"] # "launch_app" /\ pc'["http"] = "launch_app")
            => (pc["http"] = "idle" /\ ~LaunchInProgress)]_vars

\* a second launch request waits while the first launch is in its wait
C24_Witness ==
    /\ pc["http"] = "app_wait"
    /\ Alive(app_process)
    /\ pending # <<>>
    /\ Head(pending).method = "GET"
    /\ handle_launch_request(Head(pending).path) = "launch_app"

-----------------------------------------------------------------------------
(* The user-agent flag *)

\* the command line of child p carries the spoofed user-agent flag
HasUserAgent(p) == \E i \in DOMAIN procs[p].cmd : procs[p].cmd[i] = UserAgentFlag

\* the last argument of the command line of child p
TargetOf(p) == procs[p].cmd[Len(procs[p].cmd)]

\* C25: launch_browser_app leaves the configuration, chromium_flags
\* included, as it was; and the user-agent flag is on the command line of
\* exactly the browser apps launched on the streaming-service URL, never on
\* that of a hub or of another app.
C25_FlagsUnchanged ==
    /\ [][Leaves("launch_browser_app") => UNCHANGED config]_vars
    /\ [](\A p \in Pids :
             HasUserAgent(p) <=> (procs[p].kind = "browser_app"
                                    /\ TargetOf(p) = YoutubeUrl))

\* a hub launched after a browser app that carried the flag does not carry it
C25_Witness ==
    \E p, q \in Pids :
        /\ p < q
        /\ procs[p].kind = "browser_app"
        /\ HasUserAgent(p)
        /\ procs[q].kind = "hub"
        /\ ~HasUserAgent(q)
        /\ config["advanced"]["chromium_flags"] = Flags

=============================================================================
